---- MODULE Spec2Model ----
(***************************************************************************)
(* Veridion Nexus SDK adapters: the compliance interception layer.         *)
(*                                                                         *)
(* One behaviour follows one adapter instance (the six adapters share no   *)
(* state: each owns its VeridionClient).  An invocation is a record that   *)
(* moves through the statements of the adapter method it runs; the         *)
(* backend and the ledger are the environment and answer                   *)
(* nondeterministically.  Strings that the code inspects (regions) are     *)
(* sequences of characters, so that str.startswith is computed.            *)
(*                                                                         *)
(* Two invocation records are followed at a time, an invocation and one    *)
(* that overlaps it or follows it; a settled invocation (returned, its     *)
(* audit tasks run) is forgotten to make room for a further call, and a    *)
(* behaviour makes up to MaxCalls calls.                                   *)
(***************************************************************************)
EXTENDS Integers, Sequences, FiniteSets, TLC

\* Bounds of the model.
MaxCalls == 3
MaxChunks == 2
MaxLogCalls == 2
MaxTicks == 3

\* The invocation records followed at a time.
Invs == {1, 2}

----------------------------------------------------------------------------
\* Region strings, as sequences of characters.

EuPrefix == <<"e", "u", "-">>
EuropePrefix == <<"e", "u", "r", "o", "p", "e", "-">>

EuWest1 == <<"e", "u", "-", "w", "e", "s", "t", "-", "1">>
UsEast1 == <<"u", "s", "-", "e", "a", "s", "t", "-", "1">>
EuropeWest1 == <<"e", "u", "r", "o", "p", "e", "-", "w", "e", "s", "t", "1">>
UsCentral1 == <<"u", "s", "-", "c", "e", "n", "t", "r", "a", "l", "1">>
NoRegion == <<>>

\* The literal every adapter passes as target_region.
EU == <<"E", "U">>

\* str.startswith(prefix)
StartsWith(s, p) == Len(s) >= Len(p) /\ SubSeq(s, 1, Len(p)) = p

----------------------------------------------------------------------------
\* The adapters and their operations.

Adapters == {"bedrock", "vertex", "azure", "openai", "langchain", "huggingface"}

OpsOf(a) ==
    CASE a = "bedrock" -> {"bedrock_invoke", "bedrock_stream"}
      [] a = "vertex" -> {"vertex_chat", "vertex_session", "vertex_text"}
      [] a = "azure" -> {"azure_complete", "azure_stream"}
      [] a = "openai" -> {"openai_create", "openai_stream"}
      [] a = "langchain" -> {"langchain_call", "langchain_ainvoke"}
      [] a = "huggingface" -> {"hf_call"}

Ops == UNION {OpsOf(a) : a \in Adapters}

AdapterOf(op) == CHOOSE a \in Adapters : op \in OpsOf(a)

\* Region arguments tried at construction and assigned afterwards.
RegionsOf(a) ==
    CASE a = "bedrock" -> {EuWest1, UsEast1}
      [] a = "vertex" -> {EuropeWest1, UsCentral1}
      [] OTHER -> {NoRegion}

\* The methods that are generators (def ... yield).
IsStream(op) == op \in {"bedrock_stream", "azure_stream", "openai_stream"}

\* The methods that are coroutines (async def).
IsAsync(op) ==
    op \in {"azure_complete", "azure_stream", "openai_create", "openai_stream",
            "langchain_ainvoke"}

\* Delivery mode: "await self.veridion.log_action(...)" against
\* "asyncio.create_task(self.veridion.log_action(...))".
IsAwaited(op) == IsAsync(op)

\* The backend call is awaited (the event loop runs other work meanwhile)
\* or is a plain call that holds the thread until it returns.
BackendAwaited(op) == op \in {"azure_complete", "azure_stream", "langchain_ainvoke"}

\* str.lower() on the letters that occur in the region strings tried.
Lower(s) ==
    [i \in 1..Len(s) |->
        CASE s[i] = "E" -> "e"
          [] s[i] = "U" -> "u"
          [] OTHER -> s[i]]

\* A faulty variant of the construction-time check: the argument is
\* lower-cased before the prefix test.
ConstructorAllowsMutant(a, r) ==
    CASE a = "bedrock" -> StartsWith(Lower(r), EuPrefix)
      [] a = "vertex" -> StartsWith(Lower(r), EuropePrefix)
      [] OTHER -> TRUE
\* The construction-time check of the adapter's region argument.
ConstructorAllows(a, r) ==
    CASE a = "bedrock" -> StartsWith(r, EuPrefix)
      [] a = "vertex" -> StartsWith(r, EuropePrefix)
      [] OTHER -> TRUE

\* The methods that check self.region when they run.
HasGate(op) == op \in {"bedrock_invoke", "bedrock_stream"}

\* A faulty variant of the per-call check: "if not self.region".
GateAllowsMutant(r) == r # NoRegion
\* The per-call check: self.region.startswith("eu-").
GateAllows(r) == StartsWith(r, EuPrefix)

\* The except clause of the method: "except ClientError" in Bedrock,
\* "except Exception" everywhere else.
Catches(op, e) ==
    IF AdapterOf(op) = "bedrock" THEN e = "client_error" ELSE TRUE

----------------------------------------------------------------------------
\* Audit events, as passed to VeridionClient.log_action.

SuccessAction(op) ==
    CASE op = "bedrock_invoke" -> "aws_bedrock_invoke"
      [] op = "bedrock_stream" -> "aws_bedrock_stream"
      [] op = "vertex_chat" -> "vertex_ai_chat"
      [] op = "vertex_session" -> "vertex_ai_chat_session"
      [] op = "vertex_text" -> "vertex_ai_text"
      [] op = "azure_complete" -> "azure_ai_completion"
      [] op = "azure_stream" -> "azure_ai_stream"
      [] op = "openai_create" -> "openai_chat_completion"
      [] op = "openai_stream" -> "openai_chat_stream"
      [] op = "langchain_call" -> "langchain_llm_call"
      [] op = "langchain_ainvoke" -> "langchain_async_invoke"
      [] op = "hf_call" -> "huggingface_task"

ErrorAction(op) ==
    CASE op = "bedrock_invoke" -> "aws_bedrock_error"
      [] op = "bedrock_stream" -> "aws_bedrock_stream_error"
      [] op = "vertex_chat" -> "vertex_ai_chat_error"
      [] op = "vertex_session" -> "vertex_ai_chat_error"
      [] op = "vertex_text" -> "vertex_ai_text_error"
      [] op = "azure_complete" -> "azure_ai_error"
      [] op = "azure_stream" -> "azure_ai_stream_error"
      [] op = "openai_create" -> "openai_chat_error"
      [] op = "openai_stream" -> "openai_stream_error"
      [] op = "langchain_call" -> "langchain_llm_error"
      [] op = "langchain_ainvoke" -> "langchain_async_error"
      [] op = "hf_call" -> "huggingface_task_error"

\* The action names that mark an error variant (they end in "_error").
ErrorActions == {ErrorAction(op) : op \in Ops}

\* Optional values: None, or a value.
None == <<>>
Some(v) == <<v>>

\* The parameters of log_action and the defaults of its signature.
ParamNames ==
    {"action", "payload", "target_region", "user_id", "requires_human_oversight",
     "inference_time_ms", "gpu_power_rating_watts", "cpu_power_rating_watts",
     "system_id", "model_name", "model_version", "hardware_type"}

Defaults ==
    [target_region |-> EU, user_id |-> None, requires_human_oversight |-> FALSE,
     inference_time_ms |-> None, gpu_power_rating_watts |-> None,
     cpu_power_rating_watts |-> None, system_id |-> None, model_name |-> None,
     model_version |-> None, hardware_type |-> None]

\* The parameters of a log_action call made with keyword arguments kw.
Bind(kw) == [f \in ParamNames |-> IF f \in DOMAIN kw THEN kw[f] ELSE Defaults[f]]

\* system_id and hardware_type as the adapters pass them.  The HuggingFace
\* pipeline is followed on its default device, the CPU (device = -1).
SystemId(op) ==
    CASE AdapterOf(op) = "bedrock" -> "aws-bedrock"
      [] AdapterOf(op) = "vertex" -> "gcp-vertex"
      [] AdapterOf(op) = "azure" -> "azure-ai"
      [] AdapterOf(op) = "openai" -> "openai"
      [] AdapterOf(op) = "langchain" -> "langchain"
      [] AdapterOf(op) = "huggingface" -> "huggingface"

HardwareType(op) == IF AdapterOf(op) = "huggingface" THEN "CPU" ELSE "CLOUD"

CpuPower(op) == IF AdapterOf(op) = "huggingface" THEN Some(100) ELSE None

\* A faulty variant of the except clause's event: it is timed like a
\* success event.
ErrorEventMutant(op, e) ==
    Bind([action |-> ErrorAction(op),
          payload |-> [kind |-> "error", err |-> e],
          target_region |-> EU,
          inference_time_ms |-> Some("elapsed")])

\* The log_action call on the success path: the request as payload, the
\* elapsed time measured, the model's name.
SuccessEvent(op) ==
    Bind([action |-> SuccessAction(op),
          payload |-> [kind |-> "request", err |-> "none"],
          target_region |-> EU,
          inference_time_ms |-> Some("elapsed"),
          cpu_power_rating_watts |-> CpuPower(op),
          system_id |-> Some(SystemId(op)),
          model_name |-> Some("model"),
          hardware_type |-> Some(HardwareType(op))])

\* The log_action call in the except clause: payload=f"Error: {str(e)}".
ErrorEvent(op, e) ==
    Bind([action |-> ErrorAction(op),
          payload |-> [kind |-> "error", err |-> e],
          target_region |-> EU])

----------------------------------------------------------------------------
\* The ledger client.

StatusCodes == {200, 204, 403, 500}

\* What self.client.post does: it raises (connection, timeout) or it
\* returns a response with a status code and a body; json tells whether the
\* body parses as JSON (the 200 answer carries the JSON receipt, a 204 No
\* Content answer has no body).
PostRaised == [raised |-> TRUE, status |-> 0, json |-> FALSE]

TransportResults ==
    {PostRaised} \cup
    {[raised |-> FALSE, status |-> s, json |-> (s = 200)] : s \in StatusCodes}

NoResult == [raised |-> FALSE, status |-> 0, json |-> FALSE]

\* VeridionClient.log_action after the POST: what the coroutine raises, or
\* "ok" when it returns response.json().  raise_for_status raises
\* HTTPStatusError unless the status is 2xx; response.json() raises
\* JSONDecodeError when the body is not JSON.
LogAction(result) ==
    IF result.raised THEN "ledger_transport"
    ELSE IF result.status = 403 THEN "ledger_403"
    ELSE IF result.status < 200 \/ result.status > 299 THEN "ledger_http"
    ELSE IF result.json THEN "ok"
    ELSE "ledger_json"

LedgerErrors == {"ledger_transport", "ledger_403", "ledger_http", "ledger_json"}

\* What a backend call can raise.  Bedrock's except clause tells botocore's
\* ClientError from every other exception (network error, malformed
\* response); the other adapters catch Exception, one class here.
BackendErrorsOf(a) ==
    IF a = "bedrock" THEN {"client_error", "other_error"} ELSE {"backend_error"}

BackendErrors == UNION {BackendErrorsOf(a) : a \in Adapters}

----------------------------------------------------------------------------
\* VeridionClient on its own: construction, log_action, close, and the use
\* as an async context manager.

\* Python truthiness of an Optional[str], and "a or b".
Truthy(o) == o # None /\ o # Some("")
Or(a, b) == IF Truthy(a) THEN a ELSE b

\* os.getenv(name, default) for a variable whose value is env (None: unset).
Getenv(env, default) == IF env = None THEN default ELSE env

\* Arguments and environment values tried at construction.  VERIDION_API_URL
\* and VERIDION_AGENT_ID are left unset.
UrlArgs == {None, Some("https://ledger")}
AgentArgs == {None, Some("agent-1")}
KeyArgs == {None, Some(""), Some("k-arg")}
KeyEnvs == {None, Some(""), Some("k-env")}
DefaultUrl == Some("http://localhost:8080")
DefaultAgent == Some("default-agent")

\* No client has been constructed.
\*   st         "none", "open", "closed" (the httpx.AsyncClient was closed)
\*   key_arg, key_env   the api_key argument and VERIDION_API_KEY
\*   calls      the log_action calls made
\*   posts      the calls of self.client.post made
\*   last       the request of the last post
\*   args       the named arguments of the last log_action call
\*   out        what the last log_action call raised, or "ok"
\*   block      the "async with" block: "outside", "inside", "left"
\*   raised     the exception raised inside the block
\*   escaped    the exception that left the "async with" statement
NoRequest == [url |-> <<>>, headers |-> <<>>, body |-> <<>>]
NoClient ==
    [st |-> "none", api_url |-> None, api_key |-> None, agent_id |-> None,
     key_arg |-> None, key_env |-> None, calls |-> 0, posts |-> 0,
     last |-> NoRequest, args |-> <<>>, out |-> "none",
     block |-> "outside", raised |-> "none", escaped |-> "none"]

\* VeridionClient.__init__
NewVeridionClient(url_arg, key_arg, agent_arg, key_env) ==
    [NoClient EXCEPT !.st = "open",
                     !.api_url = Or(url_arg, Getenv(None, DefaultUrl)),
                     !.api_key = Or(key_arg, Getenv(key_env, None)),
                     !.agent_id = Or(agent_arg, Getenv(None, DefaultAgent)),
                     !.key_arg = key_arg,
                     !.key_env = key_env]

\* The headers dict of log_action.
NoHeaders == [h \in {} |-> None]
\* A faulty variant of the headers dict: the key is tested with
\* 'is not None', so that an empty key is sent.
HeadersMutant(cl) ==
    IF cl.api_key # None
    THEN [h \in {"Authorization"} |-> <<"Bearer", cl.api_key[1]>>]
    ELSE NoHeaders
Headers(cl) ==
    IF Truthy(cl.api_key)
    THEN [h \in {"Authorization"} |-> <<"Bearer", cl.api_key[1]>>]
    ELSE NoHeaders

\* The data dict of log_action: the parameters args, then **kwargs.
Data(cl, args, kwargs) ==
    [f \in {"agent_id"} \cup ParamNames \cup DOMAIN kwargs |->
        IF f \in DOMAIN kwargs THEN kwargs[f]
        ELSE IF f = "agent_id" THEN cl.agent_id
        ELSE args[f]]

\* A faulty variant of log_action: a failed POST is sent once more.
DoLogActionMutant(cl, args, kwargs, result) ==
    [cl EXCEPT !.calls = @ + 1,
               !.posts = IF LogAction(result) = "ok" THEN @ + 1 ELSE @ + 2,
               !.last = [url |-> <<cl.api_url[1], "/api/v1/log_action">>,
                         headers |-> Headers(cl),
                         body |-> Data(cl, args, kwargs)],
               !.args = args,
               !.out = LogAction(result)]
\* VeridionClient.log_action: one self.client.post, then the outcome the
\* result decides.  A closed httpx client raises from post.
DoLogAction(cl, args, kwargs, result) ==
    LET res == IF cl.st = "closed" THEN PostRaised ELSE result
    IN  [cl EXCEPT !.calls = @ + 1,
                   !.posts = @ + 1,
                   !.last = [url |-> <<cl.api_url[1], "/api/v1/log_action">>,
                             headers |-> Headers(cl),
                             body |-> Data(cl, args, kwargs)],
                   !.args = args,
                   !.out = LogAction(res)]

\* VeridionClient.close: self.client.aclose().
DoClose(cl) == [cl EXCEPT !.st = "closed"]

\* A faulty variant of __aexit__: the client is closed only when the block
\* ended normally.
AExitMutant(cl, e) ==
    [(IF e = "none" THEN DoClose(cl) ELSE cl) EXCEPT
        !.block = "left", !.raised = e, !.escaped = e]
\* VeridionClient.__aexit__ when the block ended with exception e ("none":
\* normally): close, and return None, which suppresses nothing.
AExit(cl, e) ==
    [DoClose(cl) EXCEPT !.block = "left", !.raised = e, !.escaped = e]

----------------------------------------------------------------------------
\* One adapter call followed with its data: the texts it is given and the
\* texts it puts in the event.  A text is a sequence of characters.

PayloadLimit == 1000

\* A text of n characters.
Text(n) == [i \in 1..n |-> IF i % 2 = 1 THEN "a" ELSE "b"]

\* The "..." appended to a cut payload.
Marker == <<".", ".", ".">>

\* A faulty variant: a payload of exactly the limit is cut too.
TruncateMutant(s) ==
    IF Len(s) >= PayloadLimit THEN SubSeq(s, 1, PayloadLimit) \o Marker ELSE s
\* if len(payload) > 1000: payload = payload[:1000] + "..."
Truncate(s) ==
    IF Len(s) > PayloadLimit THEN SubSeq(s, 1, PayloadLimit) \o Marker ELSE s

\* str(messages), json.dumps(messages), json.dumps(body): the text of the
\* request inside the delimiters of the serialized structure.
Serialized(s) == <<"[">> \o s \o <<"]">>

\* The payload the success path puts in the event for request text s.
RequestPayload(op, s) ==
    CASE AdapterOf(op) = "huggingface" -> Truncate(s)
      [] AdapterOf(op) \in {"azure", "openai", "bedrock"} -> Serialized(s)
      [] OTHER -> s

\* json.loads of a serialized structure: the text inside the delimiters.
JsonLoads(s) == SubSeq(s, 2, Len(s) - 1)

\* What the backend call evaluates to when the backend answers with text
\* out: for invoke_model a response whose body stream holds the JSON text,
\* for the other methods a response object (a chunk, for the generators)
\* that holds the text.
BackendResponse(op, out) ==
    IF op = "bedrock_invoke" THEN [body |-> Serialized(out)] ELSE [text |-> out]

\* A faulty variant of the value handed to the caller: the text is cut as
\* the payload of the event is.
ReturnedMutant(op, response) ==
    CASE op = "bedrock_invoke" -> Truncate(JsonLoads(response.body))
      [] op \in {"vertex_chat", "vertex_text"} -> Truncate(response.text)
      [] OTHER -> [response EXCEPT !.text = Truncate(@)]
\* The value the method returns (yields) for the backend's response:
\* json.loads(response['body'].read()), response.text, or the response.
Returned(op, response) ==
    CASE op = "bedrock_invoke" -> JsonLoads(response.body)
      [] op \in {"vertex_chat", "vertex_text"} -> response.text
      [] OTHER -> response

\* f"Error: {str(e)}" for an exception whose text is s.
ErrorPayload(s) == <<"E", "r", "r", "o", "r", ":", " ">> \o s

\* Times are counted in half milliseconds.  int((t1 - t0) * 1000) of two
\* time.time() readings: the whole milliseconds, truncated towards zero.
IntMs(d) == IF d >= 0 THEN d \div 2 ELSE -((-d) \div 2)

\* Adjustments of the system clock (by NTP, by an operator) tried.
ClockSteps == {-2, 2}

\* Region strings that differ from an allowed one by case, by a leading
\* space, by a missing hyphen.
EuUpperWest1 == <<"E", "U", "-", "w", "e", "s", "t", "-", "1">>
SpaceEuWest1 == <<" ", "e", "u", "-", "w", "e", "s", "t", "-", "1">>
EuBare == <<"e", "u">>
EuropeUpperWest1 == <<"E", "u", "r", "o", "p", "e", "-", "w", "e", "s", "t", "1">>
SpaceEuropeWest1 == <<" ", "e", "u", "r", "o", "p", "e", "-", "w", "e", "s", "t", "1">>
EuropeBare == <<"e", "u", "r", "o", "p", "e">>

\* The region arguments and assignments tried in a followed call.
RegionStringsOf(a) ==
    CASE a = "bedrock" ->
             {EuWest1, EuPrefix, UsEast1, EuUpperWest1, SpaceEuWest1, EuBare,
              EuropeWest1}
      [] a = "vertex" ->
             {EuropeWest1, EuropePrefix, UsCentral1, EuropeUpperWest1,
              SpaceEuropeWest1, EuropeBare, EuWest1}
      [] OTHER -> {NoRegion}

\* No call has been made.
\*   adapter  the adapter class constructed
\*   ctor     "none", "ok", "raised" (__init__ raised the violation)
\*   region_arg   the region argument given to __init__
\*   region   self.region (self.location)
\*   out      the text the backend answered with
\*   result   the value the method returned (yielded)
\*   op       the method called
\*   input    the text of the request
\*   phase    "none", "denied" (the method's region check raised),
\*            "preparing" (between start_time = time.time() and the
\*            backend call), "backend", "returned", "raised"
\*   event    the parameters of the log_action call made, or NoEvent
\*   mono     the time that has passed since the call was made
\*   wall     what time.time() returns
\*   stepped  the system clock was adjusted during the call
\*   start_time   the method's start_time
\*   b0, b1   mono when the backend call started, completed
NoEvent == [f \in {} |-> None]
NoCall ==
    [adapter |-> "none", ctor |-> "none", region_arg |-> NoRegion,
     region |-> NoRegion, out |-> <<>>, result |-> <<>>,
     op |-> "none", phase |-> "none", input |-> <<>>, event |-> NoEvent,
     mono |-> 0, wall |-> 0, stepped |-> FALSE, start_time |-> 0,
     b0 |-> 0, b1 |-> 0]

----------------------------------------------------------------------------
\* The MCP tool secure_compliance_seal (veridion_mcp.py).

MaxSeals == 2

\* What "await client.post(...)" does: it raises (no connection, timeout),
\* or returns a response with a status code and a body that is a JSON
\* object or is not.
SealResults ==
    {PostRaised} \cup
    {[raised |-> FALSE, status |-> s, json |-> j] : s \in StatusCodes, j \in BOOLEAN}

\* The tool has not been called.
\*   pc       "idle", "posting" (inside "async with", the POST in flight),
\*            "returned"
\*   http     the httpx.AsyncClient of the call: "none", "open", "closed"
\*   sent     the JSON body of the POST
\*   result   what the POST did
\*   message  the string returned: "ok", "blocked", "system_error",
\*            "connection_error"
\*   n        the calls made
NoSeal ==
    [pc |-> "idle", http |-> "none", sent |-> <<>>, result |-> NoResult,
     message |-> "none", n |-> 0]

\* The json= argument of the POST.
SealBody(agent_id, action_type, sensitive_data) ==
    [agent_id |-> agent_id, action |-> action_type, payload |-> sensitive_data,
     target_region |-> EU]

\* The branches on the response, inside "try: ... except Exception as e":
\* response.json() raises on a body that is not JSON and data.get on one
\* that is not an object; the except clause turns both into the
\* "Connection Error" message.
SealMessage(result) ==
    IF result.raised THEN "connection_error"
    ELSE IF result.status = 200
         THEN IF result.json THEN "ok" ELSE "connection_error"
         ELSE IF result.status = 403 THEN "blocked" ELSE "system_error"

----------------------------------------------------------------------------
\* The test program test_rate_limit_bypass (penetration_test_rate_limit.py).

\* The worker threads and the requests each makes (10 and 100 in the
\* program).
NumThreads == 2
RequestCount == 2
Threads == 1..NumThreads

Counters == {"success_count", "rate_limited_count", "error_count"}

\* What requests.post does: a response with a status code, or (-1) an
\* exception.
RateOutcomes == {200, 429, 500, -1}

\* The counter the branches of make_request choose for an outcome.
CounterOf(o) ==
    IF o = 200 THEN "success_count"
    ELSE IF o = 429 THEN "rate_limited_count"
    ELSE "error_count"

\* A worker thread before its first request.
\*   pc       "request", "load" (about to read the counter), "store" (has
\*            read it, about to write it back plus one), "done"
\*   i        the requests completed
\*   counter  the counter of the request in progress
\*   tmp      the value read by "load"
NoThread == [pc |-> "request", i |-> 0, counter |-> "none", tmp |-> 0]

\* The program before test_rate_limit_bypass starts its threads.
\*   main     "starting", "joining", "joined"
\*   started  the threads started so far
\*   th       the worker threads
\*   count    the three nonlocal counters
\*   total    the sum printed after the joins
NoRate ==
    [main |-> "starting", started |-> 0, th |-> [t \in Threads |-> NoThread],
     count |-> [c \in Counters |-> 0], total |-> 0]

----------------------------------------------------------------------------
\* The test program test_sql_injection (penetration_test_sql.py).

\* Payloads of the list, by the words that matter to the checks: the three
\* time-delay payloads and one that is not.
WaitforPayload == <<"W", "A", "I", "T", "F", "O", "R">>
PgSleepPayload == <<"p", "g", "_", "s", "l", "e", "e", "p">>
SleepPayload == <<"S", "L", "E", "E", "P">>
OrPayload == <<"O", "R">>
Payloads == <<OrPayload, WaitforPayload, PgSleepPayload, SleepPayload>>

Endpoints == <<"logs", "download_report">>

\* str.lower() on the letters of the payloads.
UpperLetters == <<"A", "E", "F", "I", "L", "O", "P", "R", "S", "T", "W">>
LowerLetters == <<"a", "e", "f", "i", "l", "o", "p", "r", "s", "t", "w">>
StrLower(s) ==
    [i \in 1..Len(s) |->
        IF \E k \in 1..Len(UpperLetters) : UpperLetters[k] = s[i]
        THEN LowerLetters[CHOOSE k \in 1..Len(UpperLetters) : UpperLetters[k] = s[i]]
        ELSE s[i]]

\* "sub in s" for strings.
Contains(s, sub) ==
    \E k \in 0..(Len(s) - Len(sub)) : SubSeq(s, k + 1, k + Len(sub)) = sub

SleepWord == <<"s", "l", "e", "e", "p">>
WaitforWord == <<"w", "a", "i", "t", "f", "o", "r">>

\* The response times tried, in seconds, around the threshold of
\* "elapsed > 4".
DelayThreshold == 4
ElapsedTimes == {1, DelayThreshold, DelayThreshold + 1}

\* What requests.get does: a response after some seconds whose text holds
\* an SQL error message or does not, a Timeout, or another exception.
SqlOutcomes ==
    {[kind |-> "response", elapsed |-> e, sqlerr |-> b] :
        e \in ElapsedTimes, b \in BOOLEAN}
    \cup {[kind |-> k, elapsed |-> 0, sqlerr |-> FALSE] : k \in {"timeout", "error"}}

\* The program before the loops start.
\*   e, p     the positions of the two for loops in Endpoints and Payloads
\*   vulnerable_endpoints   the list returned
\*   last     the outcome of the last request, and the number of entries
\*            each branch appended for it
NoLast ==
    [endpoint |-> "none", payload |-> <<>>,
     outcome |-> [kind |-> "none", elapsed |-> 0, sqlerr |-> FALSE],
     by_sql_error |-> 0, by_time |-> 0, by_timeout |-> 0]
NoSql ==
    [e |-> 1, p |-> 1, vulnerable_endpoints |-> <<>>, last |-> NoLast]

\* if any(error in response_text for error in sql_errors)
SqlErrorBranch(payload, o) == o.kind = "response" /\ o.sqlerr

\* if elapsed > 4 and "sleep" in payload.lower() or "waitfor" in payload.lower():
\* "and" binds tighter than "or".
TimeBranch(payload, o) ==
    /\ o.kind = "response"
    /\ \/ (o.elapsed > DelayThreshold /\ Contains(StrLower(payload), SleepWord))
       \/ Contains(StrLower(payload), WaitforWord)

\* except requests.exceptions.Timeout:
\*     if "sleep" in payload.lower() or "waitfor" in payload.lower():
TimeoutBranch(payload, o) ==
    /\ o.kind = "timeout"
    /\ \/ Contains(StrLower(payload), SleepWord)
       \/ Contains(StrLower(payload), WaitforWord)

----------------------------------------------------------------------------
\* State.

VARIABLES
    adapter,    \* the adapter class this behaviour follows
    ctor,       \* "none", "ok" (constructed) or "raised" (__init__ raised)
    region,     \* self.region of VeridionBedrock, self.location of VeridionVertexAI
    initRegion, \* the region argument that the check in __init__ accepted
    inv,        \* the invocations of the adapter's methods
    calls,      \* the number of calls made so far
    client,     \* a VeridionClient followed on its own (SpecClient)
    call,       \* one adapter call followed with its data (SpecCall)
    mcp,        \* the MCP tool secure_compliance_seal (SpecMcp)
    rate,       \* the test program test_rate_limit_bypass (SpecRate)
    sql         \* the test program test_sql_injection (SpecSql)

vars == <<adapter, ctor, region, initRegion, inv, calls, client, call, mcp,
         rate, sql>>

\* An invocation that has not been made yet.
\*   pc        "idle", "created" (generator object returned, body not run),
\*             "backend" (backend call or pull of the next chunk in
\*             progress), "yield" (suspended at yield), "await_log" and
\*             "await_errlog" (suspended at await log_action), "done"
\*   loop      the calling context has a running asyncio event loop
\*   gate      "none" while no region check ran for the call
\*   checked   self.region as the method's region check read it
\*   backend   "none", "called", "ok", or the error the backend raised
\*   exc       the exception the except clause is handling
\*   outcome   what the caller got: "response" or the error raised to it
\*             ("closed": the consumer closed the generator)
\*   subs      the log_action calls of the invocation, in order
\*   produced  the number of chunks the backend stream has produced; the
\*             k-th chunk it produces is written k
\*   delivered the chunks the consumer has received from the generator, in
\*             the order it received them
Idle ==
    [op |-> "none", pc |-> "idle", loop |-> FALSE, gate |-> "none",
     checked |-> NoRegion, backend |-> "none", exc |-> "none",
     outcome |-> "none", subs |-> <<>>, produced |-> 0, delivered |-> <<>>]

Init ==
    /\ adapter \in Adapters
    /\ ctor = "none"
    /\ region = NoRegion
    /\ initRegion = NoRegion
    /\ inv = [i \in Invs |-> Idle]
    /\ calls = 0
    /\ client = NoClient
    /\ call = NoCall
    /\ mcp = NoSeal
    /\ rate = NoRate
    /\ sql = NoSql

----------------------------------------------------------------------------
\* The statements of the adapter methods, as steps on an invocation record.

\* A faulty variant of the scheduling: the coroutine is run on the spot, the
\* POST is made and answered before the method goes on.
CreateTaskMutant(c, ev) ==
    [c EXCEPT !.subs = Append(@, [ev |-> ev, mode |-> "task", st |-> "done",
                                  res |-> [raised |-> FALSE, status |-> 200,
                                           json |-> TRUE]])]
\* asyncio.create_task(self.veridion.log_action(**ev)) under a running loop.
CreateTask(c, ev) ==
    [c EXCEPT !.subs = Append(@, [ev |-> ev, mode |-> "task", st |-> "pending",
                                  res |-> NoResult])]

\* await self.veridion.log_action(**ev): the POST is sent and awaited.
AwaitLog(c, ev) ==
    [c EXCEPT !.subs = Append(@, [ev |-> ev, mode |-> "await", st |-> "pending",
                                  res |-> NoResult])]

\* The method raises e to its caller.
Raise(c, e) == [c EXCEPT !.outcome = e, !.pc = "done"]

\* The method returns the backend's response (a generator: it is exhausted).
Return(c) == [c EXCEPT !.outcome = "response", !.pc = "done"]

\* A faulty variant of the denial: it logs the violation before raising.
OnGateDenyMutant(c) ==
    Raise(CreateTask([c EXCEPT !.gate = "deny"], ErrorEvent(c.op, "gate_error")),
          "gate_error")
\* The region check failed: raise ValueError("SOVEREIGN_LOCK_VIOLATION: ...").
OnGateDeny(c) == Raise([c EXCEPT !.gate = "deny"], "gate_error")

\* The except clause, handling exception e: log the error variant, re-raise.
\* create_task raises RuntimeError when no event loop is running.
ErrorPath(c, e) ==
    IF IsAwaited(c.op)
    THEN [AwaitLog(c, ErrorEvent(c.op, e)) EXCEPT !.exc = e, !.pc = "await_errlog"]
    ELSE IF c.loop
         THEN Raise(CreateTask(c, ErrorEvent(c.op, e)), e)
         ELSE Raise(c, "no_loop")

\* Exception e is raised inside the try block.
Throw(c, e) == IF Catches(c.op, e) THEN ErrorPath(c, e) ELSE Raise(c, e)

\* A faulty variant of the success path: every method schedules the
\* submission as a task and returns without waiting for it.
SuccessPathMutant(c) ==
    IF c.loop
    THEN Return(CreateTask(c, SuccessEvent(c.op)))
    ELSE Throw(c, "no_loop")
\* The statements after a successful backend call, inside the try block.
SuccessPath(c) ==
    IF IsAwaited(c.op)
    THEN [AwaitLog(c, SuccessEvent(c.op)) EXCEPT !.pc = "await_log"]
    ELSE IF c.loop
         THEN Return(CreateTask(c, SuccessEvent(c.op)))
         ELSE Throw(c, "no_loop")

\* A faulty variant of the method body: the audit event is scheduled first,
\* the backend is called afterwards.
EnterBodyMutant(c, r) ==
    [CreateTask(c, SuccessEvent(c.op)) EXCEPT !.backend = "called", !.pc = "backend"]
\* The method body starts with self.region = r: the region check of the
\* methods that have one, then the backend call.
EnterBody(c, r) ==
    IF HasGate(c.op)
    THEN LET c1 == [c EXCEPT !.checked = r]
         IN  IF GateAllows(r)
             THEN [c1 EXCEPT !.gate = "allow", !.backend = "called", !.pc = "backend"]
             ELSE OnGateDeny(c1)
    ELSE [c EXCEPT !.backend = "called", !.pc = "backend"]

\* A faulty variant of the stream loop: a chunk is kept in the chunks list
\* and the next one is pulled; the consumer gets nothing meanwhile.
BackendResultMutant(c, r) ==
    IF r = "chunk"
    THEN [c EXCEPT !.produced = @ + 1]
    ELSE IF r = "ok"
         THEN SuccessPath([c EXCEPT !.backend = "ok"])
         ELSE Throw([c EXCEPT !.backend = r], r)
\* The backend answers: a chunk of the stream, "ok" (the call returned, the
\* stream ended) or an error.  A chunk is yielded as it was pulled.
BackendResult(c, r) ==
    IF r = "chunk"
    THEN [c EXCEPT !.produced = @ + 1, !.delivered = Append(@, c.produced + 1),
                   !.pc = "yield"]
    ELSE IF r = "ok"
         THEN SuccessPath([c EXCEPT !.backend = "ok"])
         ELSE Throw([c EXCEPT !.backend = r], r)

\* The awaited log_action completes with the transport's result.
LedgerAnswer(c, result) ==
    LET k == Len(c.subs)
        out == LogAction(result)
        c1 == [c EXCEPT !.subs[k].st = "done", !.subs[k].res = result]
    IN  IF c.pc = "await_log"
        THEN IF out = "ok" THEN Return(c1) ELSE Throw(c1, out)
        ELSE IF out = "ok" THEN Raise(c1, c1.exc) ELSE Raise(c1, out)

\* A faulty variant of the task's completion: what log_action raises
\* reaches the invocation that created the task.
TaskDoneMutant(c, k, result) ==
    [c EXCEPT !.subs[k].st = "done", !.subs[k].res = result,
              !.outcome = IF LogAction(result) = "ok" THEN @ ELSE LogAction(result)]
\* A detached task's log_action completes; what it raises stays in the task.
TaskDone(c, k, result) ==
    [c EXCEPT !.subs[k].st = "done", !.subs[k].res = result]

----------------------------------------------------------------------------
\* Actions.

\* A plain (non-awaited) backend call is in progress: the thread is held.
ThreadBlocked ==
    \E j \in Invs : inv[j].pc = "backend" /\ ~BackendAwaited(inv[j].op)

\* __init__(region_name=r) / __init__(location=r)
Construct(r) ==
    /\ ctor # "ok"
    /\ IF ConstructorAllows(adapter, r)
       THEN ctor' = "ok" /\ region' = r /\ initRegion' = r
       ELSE ctor' = "raised" /\ region' = region /\ initRegion' = initRegion
    /\ UNCHANGED <<adapter, inv, calls, client, call, mcp, rate, sql>>

\* client.region = r (client.location = r) on a long-lived client.
SetRegion(r) ==
    /\ ctor = "ok"
    /\ adapter \in {"bedrock", "vertex"}
    /\ r # region
    /\ ~ThreadBlocked
    /\ region' = r
    /\ UNCHANGED <<adapter, ctor, initRegion, inv, calls, client, call, mcp, rate, sql>>

\* The caller calls method op.  A generator method only returns the
\* generator object; any other method starts to run.
Call(i, op, loop) ==
    /\ ctor = "ok"
    /\ calls < MaxCalls
    /\ inv[i].pc = "idle"
    /\ \A j \in Invs : j < i => inv[j].pc # "idle"
    /\ ~ThreadBlocked
    /\ calls' = calls + 1
    /\ LET c == [Idle EXCEPT !.op = op, !.loop = loop]
       IN  inv' = [inv EXCEPT ![i] = IF IsStream(op)
                                     THEN [c EXCEPT !.pc = "created"]
                                     ELSE EnterBody(c, region)]
    /\ UNCHANGED <<adapter, ctor, region, initRegion, client, call, mcp, rate, sql>>

\* The consumer asks the generator for its next item.
Resume(i) ==
    /\ inv[i].pc \in {"created", "yield"}
    /\ ~ThreadBlocked
    /\ inv' = [inv EXCEPT ![i] = IF @.pc = "created"
                                 THEN EnterBody(@, region)
                                 ELSE [@ EXCEPT !.pc = "backend"]]
    /\ UNCHANGED <<adapter, ctor, region, initRegion, calls, client, call, mcp, rate, sql>>

\* GeneratorExit is raised at the yield where the generator is suspended.
\* It is a BaseException: neither "except ClientError" nor "except
\* Exception" catches it, and the generator ends.
GeneratorExit(c) == Raise(c, "closed")

\* The consumer stops iterating: it closes the generator (close(), aclose(),
\* or the generator is collected after a break out of the for loop).
Close(i) ==
    /\ inv[i].pc = "yield"
    /\ ~ThreadBlocked
    /\ inv' = [inv EXCEPT ![i] = GeneratorExit(@)]
    /\ UNCHANGED <<adapter, ctor, region, initRegion, calls, client, call, mcp, rate, sql>>

\* The backend call (or the pull of the next chunk) completes.
BackendReturn(i, r) ==
    /\ inv[i].pc = "backend"
    /\ BackendAwaited(inv[i].op) => ~ThreadBlocked
    /\ r = "chunk" => IsStream(inv[i].op) /\ inv[i].produced < MaxChunks
    /\ inv' = [inv EXCEPT ![i] = BackendResult(@, r)]
    /\ UNCHANGED <<adapter, ctor, region, initRegion, calls, client, call, mcp, rate, sql>>

\* The ledger answers the POST of an awaited log_action.
LedgerReply(i, result) ==
    /\ inv[i].pc \in {"await_log", "await_errlog"}
    /\ ~ThreadBlocked
    /\ inv' = [inv EXCEPT ![i] = LedgerAnswer(@, result)]
    /\ UNCHANGED <<adapter, ctor, region, initRegion, calls, client, call, mcp, rate, sql>>

\* The event loop runs a detached task: its POST is sent and answered.
RunTask(i, k, result) ==
    /\ k \in DOMAIN inv[i].subs
    /\ inv[i].subs[k].mode = "task"
    /\ inv[i].subs[k].st = "pending"
    /\ ~ThreadBlocked
    /\ inv' = [inv EXCEPT ![i] = TaskDone(@, k, result)]
    /\ UNCHANGED <<adapter, ctor, region, initRegion, calls, client, call, mcp, rate, sql>>

\* A settled invocation is forgotten: it has returned or raised and every
\* task it created has run.
Settled(c) ==
    /\ c.pc = "done"
    /\ \A k \in DOMAIN c.subs : c.subs[k].st = "done"

Retire(i) ==
    /\ Settled(inv[i])
    /\ calls < MaxCalls
    /\ inv' = [inv EXCEPT ![i] = Idle]
    /\ UNCHANGED <<adapter, ctor, region, initRegion, calls, client, call, mcp, rate, sql>>

Next ==
    \/ \E r \in RegionsOf(adapter) : Construct(r)
    \/ \E r \in RegionsOf(adapter) : SetRegion(r)
    \/ \E i \in Invs, op \in OpsOf(adapter), loop \in BOOLEAN :
           (IsAsync(op) => loop) /\ Call(i, op, loop)
    \/ \E i \in Invs : Resume(i)
    \/ \E i \in Invs : Close(i)
    \/ \E i \in Invs, r \in {"chunk", "ok"} \cup BackendErrorsOf(adapter) :
           BackendReturn(i, r)
    \/ \E i \in Invs, result \in TransportResults : LedgerReply(i, result)
    \/ \E i \in Invs, k \in 1..2, result \in TransportResults : RunTask(i, k, result)
    \/ \E i \in Invs : Retire(i)

Spec == Init /\ [][Next]_vars

----------------------------------------------------------------------------
\* Vocabulary of the properties.

BedrockOps == OpsOf("bedrock")
VertexOps == OpsOf("vertex")
UngatedAdapterOps ==
    OpsOf("azure") \cup OpsOf("openai") \cup OpsOf("langchain") \cup OpsOf("huggingface")
AwaitedOps == {op \in Ops : IsAwaited(op)}
DetachedOps == {op \in Ops : ~IsAwaited(op)}

\* In this step the body of invocation i starts to run (a plain method is
\* called, a generator is iterated for the first time).
BodyStarts(i) ==
    \/ inv[i].pc = "idle" /\ inv'[i].pc \notin {"idle", "created"}
    \/ inv[i].pc = "created" /\ inv'[i].pc # "created"

\* Submission k of invocation c was answered by the ledger with a failure.
SubFailed(c, k) ==
    /\ k \in DOMAIN c.subs
    /\ c.subs[k].st = "done"
    /\ LogAction(c.subs[k].res) # "ok"

\* In this step a detached task of invocation j completes.
TaskCompletes(j) ==
    \E k \in DOMAIN inv[j].subs :
        /\ inv[j].subs[k].mode = "task"
        /\ inv[j].subs[k].st = "pending"
        /\ k \in DOMAIN inv'[j].subs
        /\ inv'[j].subs[k].st = "done"

----------------------------------------------------------------------------
\* C1: a Bedrock method whose body starts while self.region does not start
\* with "eu-" raises the SOVEREIGN_LOCK_VIOLATION error at once, and the
\* boto3 backend is never called for an invocation that was denied.
C1_DeniedStep ==
    \A i \in Invs :
        (BodyStarts(i) /\ inv'[i].op \in BedrockOps /\ ~StartsWith(region, EuPrefix))
            => /\ inv'[i].outcome = "gate_error"
               /\ inv'[i].pc = "done"
               /\ inv'[i].backend = "none"

C1_DeniedNeverCalls ==
    \A i \in Invs : inv[i].outcome = "gate_error" => inv[i].backend = "none"

C1_NonEuRegionIsDenied == [][C1_DeniedStep]_vars /\ []C1_DeniedNeverCalls

\* Both Bedrock methods were denied on a client that was constructed
\* successfully (so the region was changed afterwards).
C1_Witness ==
    /\ ctor = "ok"
    /\ inv[1].op = "bedrock_invoke" /\ inv[1].outcome = "gate_error"
    /\ inv[2].op = "bedrock_stream" /\ inv[2].outcome = "gate_error"

\* C2: an invocation that the region check denied makes no log_action call
\* and creates no audit task, then or later.
C2_DeniedSubmitsNothing ==
    \A i \in Invs : inv[i].gate = "deny" => inv[i].subs = <<>>

C2_Witness ==
    \E i \in Invs :
        /\ inv[i].op = "bedrock_stream"
        /\ inv[i].gate = "deny"
        /\ inv[i].pc = "done"
        /\ inv[i].loop

\* C3: a Vertex method called while the client's location does not start
\* with "europe-" is denied and does not call the Vertex backend.
C3_VertexDeniedStep ==
    \A i \in Invs :
        (BodyStarts(i) /\ inv'[i].op \in VertexOps /\ ~StartsWith(region, EuropePrefix))
            => /\ inv'[i].outcome = "gate_error"
               /\ inv'[i].backend = "none"

C3_VertexGatePerCall == [][C3_VertexDeniedStep]_vars

\* C4: in the Azure, OpenAI, LangChain and HuggingFace adapters the backend
\* is called only after a region check of the call that allowed it.
C4_GateBeforeBackend ==
    \A i \in Invs :
        (inv[i].op \in UngatedAdapterOps /\ inv[i].backend # "none")
            => inv[i].gate = "allow"

\* C5: when the backend call succeeded, a failed audit submission does not
\* keep the backend's response from the caller.
C5_LedgerFailureKeepsResponse ==
    \A i \in Invs :
        (inv[i].pc = "done" /\ inv[i].backend = "ok"
            /\ \E k \in DOMAIN inv[i].subs : SubFailed(inv[i], k))
            => inv[i].outcome = "response"

\* C6: when the backend call failed the caller gets the backend's error, and
\* a ledger error reaches the caller only if the backend call succeeded.
C6_BackendErrorReachesCaller ==
    \A i \in Invs :
        /\ (inv[i].pc = "done" /\ inv[i].backend \in BackendErrors)
               => inv[i].outcome = inv[i].backend
        /\ inv[i].outcome \in LedgerErrors => inv[i].backend = "ok"

\* C7: an invocation whose backend call succeeded has made exactly one
\* submission when it ends, and it is the success event.
C7_OneSuccessEvent ==
    \A i \in Invs :
        (inv[i].pc = "done" /\ inv[i].backend = "ok")
            => /\ Len(inv[i].subs) = 1
               /\ inv[i].subs[1].ev.action = SuccessAction(inv[i].op)

\* C8: an invocation whose backend call failed has made exactly one
\* submission when it ends: the error variant, its payload describing the
\* backend's error.
C8_OneErrorEvent ==
    \A i \in Invs :
        (inv[i].pc = "done" /\ inv[i].backend \in BackendErrors)
            => /\ Len(inv[i].subs) = 1
               /\ inv[i].subs[1].ev.action \in ErrorActions
               /\ inv[i].subs[1].ev.payload = [kind |-> "error", err |-> inv[i].backend]

\* C9: once the backend call succeeded and the ledger answered 403 to the
\* success event, an awaited-delivery method ends by raising the ledger's
\* sovereignty rejection, and a detached-delivery method has returned the
\* backend's response.
C9_RejectionByMode ==
    \A i \in Invs :
        (/\ inv[i].pc = "done"
         /\ inv[i].backend = "ok"
         /\ SubFailed(inv[i], 1)
         /\ LogAction(inv[i].subs[1].res) = "ledger_403")
            => inv[i].outcome = IF IsAwaited(inv[i].op) THEN "ledger_403" ELSE "response"

\* C10: in the detached-delivery methods no ledger failure is raised: not to
\* the caller of the invocation, and the completion of a task changes what
\* no invocation, this one or a later one, has returned or raised.
C10_NoLedgerErrorRaised ==
    \A i \in Invs : inv[i].op \in DetachedOps => inv[i].outcome \notin LedgerErrors

C10_TaskStep ==
    \A j \in Invs :
        TaskCompletes(j) =>
            \A i \in Invs : inv'[i].outcome = inv[i].outcome /\ inv'[i].pc = inv[i].pc

C10_DetachedFailureSwallowed == []C10_NoLedgerErrorRaised /\ [][C10_TaskStep]_vars

\* A detached task failed with each kind of ledger failure while its
\* invocation and a later one returned their responses.
C10_Witness ==
    /\ inv[1].op \in DetachedOps /\ inv[1].outcome = "response"
    /\ SubFailed(inv[1], 1)
    /\ inv[2].op \in DetachedOps /\ inv[2].outcome = "response"
    /\ SubFailed(inv[2], 1)
    /\ LogAction(inv[1].subs[1].res) # LogAction(inv[2].subs[1].res)

----------------------------------------------------------------------------
\* C11: a detached-delivery invocation whose backend call succeeded ends by
\* returning the backend's response, whether or not the calling context has
\* a running event loop.
C11_DetachedAlwaysReturns ==
    \A i \in Invs :
        (inv[i].op \in DetachedOps /\ inv[i].pc = "done" /\ inv[i].backend = "ok")
            => inv[i].outcome = "response"

\* C12: in the detached-delivery methods the POST of an invocation is made
\* only once the invocation has returned or raised, and the invocation ends
\* while every task it created is still waiting to run.
C12_PostStep ==
    \A j \in Invs : TaskCompletes(j) => inv[j].pc = "done"

C12_EndStep ==
    \A i \in Invs :
        (inv'[i].op \in DetachedOps /\ inv[i].pc # "done" /\ inv'[i].pc = "done")
            => \A k \in DOMAIN inv'[i].subs : inv'[i].subs[k].st = "pending"

C12_DetachedNeverWaits == [][C12_PostStep /\ C12_EndStep]_vars

\* One detached invocation has returned and its POST was made afterwards;
\* another has returned and its POST is still to be made.
C12_Witness ==
    /\ inv[1].op \in DetachedOps /\ inv[1].outcome = "response"
    /\ Len(inv[1].subs) = 1 /\ inv[1].subs[1].st = "done"
    /\ inv[2].op \in DetachedOps /\ inv[2].outcome = "response"
    /\ Len(inv[2].subs) = 1 /\ inv[2].subs[1].st = "pending"

\* C13: VeridionAzureAI.complete, VeridionOpenAIMCP.chat_completions_create
\* and VeridionLangChainWrapper.ainvoke return the backend's response only
\* after the log_action call of the invocation has completed, and do not end
\* while a log_action call of theirs is in progress.
AwaitedSingleOps == {"azure_complete", "openai_create", "langchain_ainvoke"}

C13_AwaitedWaitsForLedger ==
    \A i \in Invs :
        inv[i].op \in AwaitedSingleOps =>
            /\ inv[i].outcome = "response"
                   => /\ Len(inv[i].subs) >= 1
                      /\ inv[i].subs[1].ev.action = SuccessAction(inv[i].op)
                      /\ inv[i].subs[1].st = "done"
            /\ inv[i].pc = "done"
                   => \A k \in DOMAIN inv[i].subs : inv[i].subs[k].st = "done"

\* One awaited invocation returned the response after the ledger accepted
\* its event; another ended after the ledger had failed.
C13_Witness ==
    /\ inv[1].op \in AwaitedSingleOps /\ inv[1].outcome = "response"
    /\ inv[1].subs[1].st = "done"
    /\ inv[2].op \in AwaitedSingleOps /\ inv[2].pc = "done"
    /\ inv[2].backend = "ok" /\ SubFailed(inv[2], 1)

\* C14: an invocation has made or scheduled no log_action call while its
\* backend call has not started or is in progress (a stream: while chunks
\* are still being pulled); the first one comes after the backend call has
\* returned, raised, or the stream has ended.
BackendInProgress(c) == c.backend \in {"none", "called"}

C14_BackendBeforeEvent ==
    \A i \in Invs :
        /\ BackendInProgress(inv[i]) => inv[i].subs = <<>>
        /\ inv[i].pc \in {"created", "backend", "yield"} => inv[i].subs = <<>>

\* A stream is suspended between two chunks with no event, while another
\* invocation whose backend call has completed has submitted its event.
C14_Witness ==
    /\ IsStream(inv[1].op) /\ inv[1].pc = "yield" /\ inv[1].produced >= 1
    /\ inv[1].subs = <<>>
    /\ ~BackendInProgress(inv[2]) /\ Len(inv[2].subs) = 1

\* C15: in a streamed call the chunks the consumer has received are at every
\* moment a prefix of the chunks the backend stream has produced, in the
\* backend's order; while the next chunk is being pulled every chunk
\* produced so far has been delivered; and when the backend stream has
\* ended normally the consumer has received all of them.
ProducedSeq(c) == [k \in 1..c.produced |-> k]

IsPrefix(s, t) == Len(s) <= Len(t) /\ SubSeq(t, 1, Len(s)) = s

C15_ChunksInOrder ==
    \A i \in Invs :
        IsStream(inv[i].op) =>
            /\ IsPrefix(inv[i].delivered, ProducedSeq(inv[i]))
            /\ inv[i].pc = "backend" => inv[i].delivered = ProducedSeq(inv[i])
            /\ inv[i].backend = "ok" => inv[i].delivered = ProducedSeq(inv[i])

\* A stream of two chunks or more has ended normally, and another stream is
\* pulling its second chunk.
C15_Witness ==
    /\ IsStream(inv[1].op) /\ inv[1].backend = "ok" /\ inv[1].produced >= 2
    /\ IsStream(inv[2].op) /\ inv[2].pc = "backend" /\ inv[2].produced = 1

\* C16: a streamed call whose backend stream ended normally makes exactly
\* one log_action call: none before the stream has ended and its last chunk
\* was delivered, never more than one whatever the ledger answers, and the
\* one it has made when it ends is the summary (non-error) event.
StreamOps == {op \in Ops : IsStream(op)}

C16_OneSummaryEvent ==
    \A i \in Invs :
        inv[i].op \in StreamOps =>
            /\ inv[i].subs # <<>>
                   => /\ inv[i].backend # "called"
                      /\ inv[i].delivered = ProducedSeq(inv[i])
            /\ inv[i].backend = "ok"
                   => /\ Len(inv[i].subs) <= 1
                      /\ inv[i].pc = "done"
                             => /\ Len(inv[i].subs) = 1
                                /\ inv[i].subs[1].ev.action = SuccessAction(inv[i].op)

\* C17: when the backend stream raised after k chunks, the consumer has
\* received exactly those k chunks, and the streamed call ends having made
\* exactly one log_action call, the error variant, and having raised the
\* backend's error to the consumer.
C17_StreamErrorReported ==
    \A i \in Invs :
        (inv[i].op \in StreamOps /\ inv[i].backend \in BackendErrors)
            => /\ inv[i].delivered = ProducedSeq(inv[i])
               /\ inv[i].pc = "done"
                      => /\ Len(inv[i].subs) = 1
                         /\ inv[i].subs[1].ev.action = ErrorAction(inv[i].op)
                         /\ inv[i].outcome = inv[i].backend

\* C18: a streamed call that has opened the backend stream and has ended,
\* by the stream's end, by an error, or because the consumer closed the
\* generator, has made a log_action call.
C18_StreamAlwaysReported ==
    \A i \in Invs :
        (inv[i].op \in StreamOps /\ inv[i].backend # "none" /\ inv[i].pc = "done")
            => inv[i].subs # <<>>

\* C19: the target_region of every event a Bedrock or Vertex invocation
\* submits is the region string that was checked for the call: the
\* self.region the method's check read (Bedrock), the location the
\* constructor's check accepted (Vertex).
GateChecked(c) == IF HasGate(c.op) THEN c.checked ELSE initRegion

C19_TargetRegionIsChecked ==
    \A i \in Invs :
        inv[i].op \in BedrockOps \cup VertexOps =>
            \A k \in DOMAIN inv[i].subs :
                inv[i].subs[k].ev.target_region = GateChecked(inv[i])

\* C20: what log_action does is fixed by the transport's result in four
\* exclusive ways: the POST raised, and log_action raises the transport
\* error; status 403, the sovereignty rejection; any other status outside
\* 200..299, the HTTP-status error; a status in 200..299, log_action
\* returns the body and does not raise.
ClaimedOutcome(result) ==
    IF result.raised THEN "ledger_transport"
    ELSE IF result.status = 403 THEN "ledger_403"
    ELSE IF result.status \notin 200..299 THEN "ledger_http"
    ELSE "ok"

C20_FourOutcomes ==
    \A i \in Invs : \A k \in DOMAIN inv[i].subs :
        inv[i].subs[k].st = "done"
            => LogAction(inv[i].subs[k].res) = ClaimedOutcome(inv[i].subs[k].res)

----------------------------------------------------------------------------
\* The exceptions behind the error kinds: the Python class that is raised,
\* and whether its message carries the marker "SOVEREIGN_LOCK_VIOLATION".
ExceptionType(e) ==
    CASE e \in {"gate_error", "ledger_403"} -> "ValueError"
      [] e = "ledger_http" -> "HTTPStatusError"
      [] e = "ledger_transport" -> "TransportError"
      [] e = "ledger_json" -> "JSONDecodeError"
      [] e = "no_loop" -> "RuntimeError"
      [] e = "client_error" -> "ClientError"
      [] e = "closed" -> "GeneratorExit"
      [] OTHER -> "Exception"

HasMarker(e) == e \in {"gate_error", "ledger_403"}

\* What the example handlers look at: "except ValueError as e" and
\* "SOVEREIGN_LOCK_VIOLATION" in str(e).
Observed(e) == [type |-> ExceptionType(e), marker |-> HasMarker(e)]

\* C21: when a caller receives the error of a remote-ledger 403, its type
\* and marker differ from those of the error the local region check raises,
\* so that the two can be told apart.
C21_RemoteDistinctFromLocal ==
    \A i \in Invs :
        inv[i].outcome = "ledger_403"
            => Observed(inv[i].outcome) # Observed("gate_error")

----------------------------------------------------------------------------
\* VeridionClient followed on its own.

\* The log_action calls tried: those of an adapter (success, error variant),
\* and a direct call with the two required arguments only.
LogArgs ==
    {SuccessEvent("azure_complete"), SuccessEvent("hf_call"),
     ErrorEvent("azure_complete", "backend_error"),
     Bind([action |-> "manual", payload |-> [kind |-> "request", err |-> "none"]])}

\* The extra keyword arguments (**kwargs) tried.
NoKwargs == [f \in {} |-> None]
ExtraKwargs ==
    {NoKwargs,
     [f \in {"trace_id"} |-> Some("t-1")],
     [f \in {"agent_id"} |-> Some("agent-2")]}

NewClient(url_arg, key_arg, agent_arg, key_env) ==
    /\ client.st = "none"
    /\ client' = NewVeridionClient(url_arg, key_arg, agent_arg, key_env)
    /\ UNCHANGED <<adapter, ctor, region, initRegion, inv, calls, call, mcp, rate, sql>>

LogActionCall(args, kwargs, result) ==
    /\ client.st \in {"open", "closed"}
    /\ client.calls < MaxLogCalls
    /\ client' = DoLogAction(client, args, kwargs, result)
    /\ UNCHANGED <<adapter, ctor, region, initRegion, inv, calls, call, mcp, rate, sql>>

\* await client.close()
CloseCall ==
    /\ client.st = "open"
    /\ client.block # "inside"
    /\ client' = DoClose(client)
    /\ UNCHANGED <<adapter, ctor, region, initRegion, inv, calls, call, mcp, rate, sql>>

\* async with client: __aenter__ returns self.
AEnter ==
    /\ client.st = "open"
    /\ client.block = "outside"
    /\ client' = [client EXCEPT !.block = "inside"]
    /\ UNCHANGED <<adapter, ctor, region, initRegion, inv, calls, call, mcp, rate, sql>>

\* The block of the async with statement ends, normally or by exception e.
BlockEnds(e) ==
    /\ client.block = "inside"
    /\ client' = AExit(client, e)
    /\ UNCHANGED <<adapter, ctor, region, initRegion, inv, calls, call, mcp, rate, sql>>

InitClient ==
    /\ adapter = "azure"
    /\ ctor = "none"
    /\ region = NoRegion
    /\ initRegion = NoRegion
    /\ inv = [i \in Invs |-> Idle]
    /\ calls = 0
    /\ client = NoClient
    /\ call = NoCall
    /\ mcp = NoSeal
    /\ rate = NoRate
    /\ sql = NoSql

NextClient ==
    \/ \E u \in UrlArgs, k \in KeyArgs, a \in AgentArgs, e \in KeyEnvs :
           NewClient(u, k, a, e)
    \/ \E args \in LogArgs, kwargs \in ExtraKwargs, result \in TransportResults :
           LogActionCall(args, kwargs, result)
    \/ CloseCall
    \/ AEnter
    \/ \E e \in {"none", "block_error"} : BlockEnds(e)

SpecClient == InitClient /\ [][NextClient]_vars

\* C22: each log_action call makes exactly one call of self.client.post,
\* whatever its outcome: the posts made are as many as the calls made, and
\* nothing but a log_action call makes one.
C22_PostStep ==
    /\ client'.calls = client.calls + 1 => client'.posts = client.posts + 1
    /\ client'.calls = client.calls => client'.posts = client.posts
    /\ client'.posts # client.posts
           => client'.last.url = <<client.api_url[1], "/api/v1/log_action">>

C22_OnePostPerCall == [](client.posts = client.calls) /\ [][C22_PostStep]_vars

\* Two calls were made, each with its one POST; the ledger rejected the
\* second.
C22_Witness ==
    /\ client.calls = 2
    /\ client.posts = 2
    /\ client.out = "ledger_403"

\* C23: once the block of "async with client" has been left, normally or by
\* an exception, the client's transport is closed and the exception raised
\* inside the block is the one that leaves the statement; closing does not
\* depend on a request having been sent.
C23_ExitStep ==
    (client.block = "inside" /\ client'.block = "left")
        => /\ client'.st = "closed"
           /\ client'.escaped = client'.raised

C23_ClosedOnEveryExit ==
    /\ [](client.block = "left" => client.st = "closed" /\ client.escaped = client.raised)
    /\ [][C23_ExitStep]_vars

\* The block was left by an exception on a client that never sent a request.
C23_Witness ==
    /\ client.block = "left"
    /\ client.raised = "block_error"
    /\ client.posts = 0
    /\ client.st = "closed"

----------------------------------------------------------------------------
\* One adapter call followed with its data.

\* The request texts and the exception texts tried.
InputTexts ==
    {Text(3), Text(PayloadLimit), Text(PayloadLimit + 1),
     Text(PayloadLimit + Len(Marker)), Text(PayloadLimit + 500)}

\* The texts of the backend's answers tried.
OutputTexts == {Text(3), Text(PayloadLimit + 1)}

ErrorTexts == {Text(5), Text(PayloadLimit + 200)}

\* The adapter a is constructed with region argument r.
NewAdapter(a, r) ==
    /\ call.ctor = "none"
    /\ call' = [call EXCEPT
           !.adapter = a,
           !.region_arg = r,
           !.ctor = IF ConstructorAllows(a, r) THEN "ok" ELSE "raised",
           !.region = IF ConstructorAllows(a, r) THEN r ELSE @]
    /\ UNCHANGED <<adapter, ctor, region, initRegion, inv, calls, client, mcp, rate, sql>>

\* client.region = r (client.location = r) before the call.
AssignRegion(r) ==
    /\ call.ctor = "ok"
    /\ call.phase = "none"
    /\ call.region = call.region_arg
    /\ r # call.region
    /\ call' = [call EXCEPT !.region = r]
    /\ UNCHANGED <<adapter, ctor, region, initRegion, inv, calls, client, mcp, rate, sql>>

\* The caller calls method op with a request of text s: the region check of
\* the methods that have one, then start_time = time.time().
Begin(op, s) ==
    /\ call.ctor = "ok"
    /\ call.phase = "none"
    /\ op \in OpsOf(call.adapter)
    /\ call' = IF HasGate(op) /\ ~GateAllows(call.region)
               THEN [call EXCEPT !.op = op, !.phase = "denied", !.input = s]
               ELSE [call EXCEPT !.op = op, !.phase = "preparing", !.input = s,
                                 !.start_time = call.wall]
    /\ UNCHANGED <<adapter, ctor, region, initRegion, inv, calls, client, mcp, rate, sql>>

\* The payload is made (str, json.dumps), the arguments are evaluated, and
\* the backend is called.
StartBackend ==
    /\ call.phase = "preparing"
    /\ call' = [call EXCEPT !.phase = "backend", !.b0 = call.mono]
    /\ UNCHANGED <<adapter, ctor, region, initRegion, inv, calls, client, mcp, rate, sql>>

\* Half a millisecond passes.
Tick ==
    /\ call.phase \in {"preparing", "backend"}
    /\ call.mono < MaxTicks
    /\ call' = [call EXCEPT !.mono = @ + 1, !.wall = @ + 1]
    /\ UNCHANGED <<adapter, ctor, region, initRegion, inv, calls, client, mcp, rate, sql>>

\* The system clock is set: time.time() is not monotonic.
ClockStep(d) ==
    /\ call.phase \in {"preparing", "backend"}
    /\ ~call.stepped
    /\ call' = [call EXCEPT !.wall = @ + d, !.stepped = TRUE]
    /\ UNCHANGED <<adapter, ctor, region, initRegion, inv, calls, client, mcp, rate, sql>>

\* The backend call returns: inference_time_ms is computed and the success
\* event is made.
BackendOk(out) ==
    /\ call.phase = "backend"
    /\ call' = [call EXCEPT
           !.phase = "returned",
           !.out = out,
           !.result = Returned(call.op, BackendResponse(call.op, out)),
           !.b1 = call.mono,
           !.event = [SuccessEvent(call.op) EXCEPT
                          !.payload = RequestPayload(call.op, call.input),
                          !.inference_time_ms = Some(IntMs(call.wall - call.start_time))]]
    /\ UNCHANGED <<adapter, ctor, region, initRegion, inv, calls, client, mcp, rate, sql>>

\* The backend call raises an exception of text s that the except clause
\* catches: the error event is made.
BackendRaises(e, s) ==
    /\ call.phase = "backend"
    /\ Catches(call.op, e)
    /\ call' = [call EXCEPT
           !.phase = "raised",
           !.event = [ErrorEvent(call.op, e) EXCEPT !.payload = ErrorPayload(s)]]
    /\ UNCHANGED <<adapter, ctor, region, initRegion, inv, calls, client, mcp, rate, sql>>

InitCall ==
    /\ adapter = "azure"
    /\ ctor = "none"
    /\ region = NoRegion
    /\ initRegion = NoRegion
    /\ inv = [i \in Invs |-> Idle]
    /\ calls = 0
    /\ client = NoClient
    /\ call = NoCall
    /\ mcp = NoSeal
    /\ rate = NoRate
    /\ sql = NoSql

NextCall ==
    \/ \E a \in Adapters : \E r \in RegionStringsOf(a) : NewAdapter(a, r)
    \/ \E r \in RegionStringsOf(call.adapter) : AssignRegion(r)
    \/ \E op \in Ops, s \in InputTexts : Begin(op, s)
    \/ StartBackend
    \/ Tick
    \/ \E d \in ClockSteps : ClockStep(d)
    \/ \E out \in OutputTexts : BackendOk(out)
    \/ \E e \in BackendErrors, s \in ErrorTexts : BackendRaises(e, s)

SpecCall == InitCall /\ [][NextCall]_vars

\* C24: the payload of every event, success or error variant, has at most
\* 1000 characters plus the truncation marker, and a request text longer
\* than 1000 characters is in the event as its first 1000 characters
\* followed by the marker.
C24_PayloadBounded ==
    call.event # NoEvent =>
        /\ Len(call.event["payload"]) <= PayloadLimit + Len(Marker)
        /\ (call.phase = "returned" /\ Len(call.input) > PayloadLimit)
               => call.event["payload"] = SubSeq(call.input, 1, PayloadLimit) \o Marker

----------------------------------------------------------------------------
\* C25: an event made on a failure path (in an except clause) has an
\* error-variant action and leaves inference_time_ms, system_id, model_name,
\* model_version and hardware_type unset; an event made on the success path
\* has inference_time_ms, system_id, model_name and hardware_type set.  So
\* inference_time_ms is unset exactly in the error-variant events.
\* The success event of an invocation is its first log_action call when the
\* backend call succeeded; every other call is made in the except clause.
FromSuccessPath(c, k) == k = 1 /\ c.backend = "ok"

UnsetInErrors ==
    {"inference_time_ms", "system_id", "model_name", "model_version", "hardware_type"}
SetInSuccess == {"inference_time_ms", "system_id", "model_name", "hardware_type"}

C25_ErrorEventsUntimed ==
    \A i \in Invs : \A k \in DOMAIN inv[i].subs :
        LET ev == inv[i].subs[k].ev
        IN  /\ ~FromSuccessPath(inv[i], k)
                => /\ ev["action"] \in ErrorActions
                   /\ \A f \in UnsetInErrors : ev[f] = None
            /\ FromSuccessPath(inv[i], k)
                => \A f \in SetInSuccess : ev[f] # None
            /\ ev["inference_time_ms"] = None <=> ev["action"] \in ErrorActions

\* An awaited invocation has made both: the success event, which the ledger
\* refused, and then the error variant.
C25_Witness ==
    \E i \in Invs :
        /\ inv[i].backend = "ok"
        /\ Len(inv[i].subs) = 2
        /\ inv[i].subs[1].ev["inference_time_ms"] # None
        /\ inv[i].subs[2].ev["inference_time_ms"] = None

\* C26: in a single-shot call that succeeded, inference_time_ms of the
\* success event is not negative and is the time that passed between the
\* start and the completion of the backend call, in whole milliseconds.
C26_InferenceTimeIsBackendSpan ==
    (call.phase = "returned" /\ ~IsStream(call.op))
        => /\ call.event["inference_time_ms"][1] >= 0
           /\ call.event["inference_time_ms"][1] = IntMs(call.b1 - call.b0)

\* C27: the Bedrock checks allow a region exactly when its first three
\* characters are "eu-", the Vertex check allows a location exactly when its
\* first seven are "europe-", character for character; and a method's check
\* decides on a region as the constructor's check of the adapter does.
BeginsWith(s, p) == Len(s) >= Len(p) /\ \A i \in 1..Len(p) : s[i] = p[i]

AllowedPrefix(a) == IF a = "bedrock" THEN EuPrefix ELSE EuropePrefix

C27_ExactPrefixRule ==
    call.adapter \in {"bedrock", "vertex"} =>
        /\ call.ctor = "ok" <=> BeginsWith(call.region_arg, AllowedPrefix(call.adapter))
        /\ (HasGate(call.op) /\ call.phase # "none")
               => /\ call.phase # "denied"
                      <=> BeginsWith(call.region, AllowedPrefix(call.adapter))
                  /\ call.phase # "denied"
                      <=> ConstructorAllows(call.adapter, call.region)

\* A Bedrock method was denied on a client whose region was set to
\* "EU-west-1" after a construction that "eu-" alone had passed.
C27_Witness ==
    /\ call.adapter = "bedrock"
    /\ call.region_arg = EuPrefix
    /\ call.region = EuUpperWest1
    /\ call.phase = "denied"

\* C28: the JSON body of every submission has exactly the thirteen fields
\* agent_id, action, payload, target_region, user_id,
\* requires_human_oversight, inference_time_ms, gpu_power_rating_watts,
\* cpu_power_rating_watts, system_id, model_name, model_version and
\* hardware_type, and action, payload and target_region are never null.
AuditEventFields ==
    {"agent_id", "action", "payload", "target_region", "user_id",
     "requires_human_oversight", "inference_time_ms", "gpu_power_rating_watts",
     "cpu_power_rating_watts", "system_id", "model_name", "model_version",
     "hardware_type"}

\* The fields of a body whose value is null.  action and payload (str) and
\* requires_human_oversight (bool) are passed as the values themselves,
\* every other field as None or Some(v).
StrOrBoolParams == {"action", "payload", "requires_human_oversight"}
NullFields(body) == {f \in DOMAIN body \ StrOrBoolParams : body[f] = None}

C28_BodyHasEventFields ==
    client.calls > 0 =>
        /\ DOMAIN client.last.body = AuditEventFields
        /\ \A f \in {"action", "payload", "target_region"} :
               f \in DOMAIN client.last.body /\ f \notin NullFields(client.last.body)

\* C29: a submission carries the header Authorization: Bearer <api_key>
\* exactly when a credential is configured, by the api_key argument or, in
\* its absence, by VERIDION_API_KEY; the key sent is the configured one, the
\* argument before the environment; with no credential the submission has
\* no Authorization header.
Configured(cl) == Truthy(cl.key_arg) \/ Truthy(cl.key_env)

ConfiguredKey(cl) == IF Truthy(cl.key_arg) THEN cl.key_arg[1] ELSE cl.key_env[1]

C29_BearerIffConfigured ==
    client.calls > 0 =>
        /\ "Authorization" \in DOMAIN client.last.headers <=> Configured(client)
        /\ Configured(client) =>
               client.last.headers["Authorization"] = <<"Bearer", ConfiguredKey(client)>>
        /\ ~Configured(client) => DOMAIN client.last.headers = {}

\* A submission of a client built with an empty api_key argument and
\* VERIDION_API_KEY set carried the environment's key.
C29_Witness ==
    /\ client.calls > 0
    /\ client.key_arg = Some("")
    /\ client.key_env = Some("k-env")
    /\ "Authorization" \in DOMAIN client.last.headers
    /\ client.last.headers["Authorization"] = <<"Bearer", "k-env">>

\* C30: the value a method hands to the caller on success carries the
\* backend's answer whole, whatever its length and whatever was done to
\* the payload of the event; in particular the HuggingFace pipeline's
\* result is returned unchanged when the payload of its event was cut.
ContentOf(op, v) ==
    IF op \in {"bedrock_invoke", "vertex_chat", "vertex_text"} THEN v ELSE v.text

C30_ResultIsBackendResponse ==
    call.phase = "returned" =>
        /\ ContentOf(call.op, call.result) = call.out
        /\ (call.op = "hf_call" /\ Len(call.input) > PayloadLimit)
               => /\ Len(call.event.payload) = PayloadLimit + Len(Marker)
                  /\ call.result = [text |-> call.out]

\* A HuggingFace call whose request of 1500 characters was cut in the
\* event returned the pipeline's result of 1001 characters whole.
C30_Witness ==
    /\ call.op = "hf_call"
    /\ call.phase = "returned"
    /\ call.input = Text(PayloadLimit + 500)
    /\ call.event.payload = SubSeq(call.input, 1, PayloadLimit) \o Marker
    /\ call.out = Text(PayloadLimit + 1)
    /\ call.result.text = call.out

\* C31: a call of invoke_model_with_response_stream made while self.region
\* is not an EU region raises the violation itself: the step that makes the
\* call ends the invocation with the gate's error, and none is left as a
\* stream object whose check is still to come.
C31_CallStep ==
    \A i \in Invs :
        (/\ inv[i].pc = "idle"
         /\ inv'[i].pc # "idle"
         /\ inv'[i].op = "bedrock_stream"
         /\ ~GateAllows(region))
            => /\ inv'[i].pc = "done"
               /\ inv'[i].outcome = "gate_error"
               /\ inv'[i].checked = region

C31_StreamGateAtCall == [][C31_CallStep]_vars

\* C32: the payload of a HuggingFace success event is the input text when
\* that has at most 1000 characters, and its first 1000 characters followed
\* by "..." otherwise; the payload has 1003 characters exactly when the
\* input was cut, and cutting the payload again leaves it as it is.
C32_TruncationRule ==
    (call.op = "hf_call" /\ call.phase = "returned") =>
        LET s == call.input
            p == call.event.payload
        IN  /\ Len(s) <= 1000 => p = s
            /\ Len(s) > 1000 => p = SubSeq(s, 1, 1000) \o <<".", ".", ".">>
            /\ Len(p) = 1003 <=> Len(s) > 1000
            /\ Truncate(p) = p

\* An input of exactly 1003 characters was cut: the payload has as many
\* characters as the input and ends with the marker instead of the input's
\* last three.
C32_Witness ==
    /\ call.op = "hf_call"
    /\ call.phase = "returned"
    /\ Len(call.input) = 1003
    /\ Len(call.event.payload) = 1003
    /\ call.event.payload # call.input

\* C33: while the ledger accepts every submission, each invocation that
\* reached the backend has, in every interleaving with the other invocations
\* of the adapter, at most one audit event, exactly one once it has ended,
\* and that event is one of its own method.
AllAccepted ==
    \A j \in Invs : \A k \in DOMAIN inv[j].subs :
        inv[j].subs[k].st = "done" => LogAction(inv[j].subs[k].res) = "ok"

C33_OneEventPerInvocation ==
    AllAccepted =>
        \A i \in Invs :
            inv[i].backend # "none" =>
                /\ Len(inv[i].subs) <= 1
                /\ inv[i].pc = "done" => Len(inv[i].subs) = 1
                /\ \A k \in DOMAIN inv[i].subs :
                       inv[i].subs[k].ev.action
                           \in {SuccessAction(inv[i].op), ErrorAction(inv[i].op)}

----------------------------------------------------------------------------
\* Detached delivery and close(): an adapter with its VeridionClient, the
\* invocations of its plain methods under a running event loop, the tasks
\* they leave behind, and the adapter's close().

\* The single-shot methods that schedule their submission as a task.
DetachedSingleOps == {op \in DetachedOps : ~IsStream(op)}

\* __init__(region_name=r): the region check, then self.veridion =
\* VeridionClient(api_url, api_key, agent_id or "<adapter>-agent").
OpenAdapter(r) ==
    /\ ctor = "none"
    /\ IF ConstructorAllows(adapter, r)
       THEN /\ ctor' = "ok" /\ region' = r /\ initRegion' = r
            /\ client' = NewVeridionClient(None, None, Some("adapter-agent"), None)
       ELSE /\ ctor' = "raised"
            /\ UNCHANGED <<region, initRegion, client>>
    /\ UNCHANGED <<adapter, inv, calls, call, mcp, rate, sql>>

\* A coroutine of the running loop calls method op: the method runs up to
\* its backend call.
CallInLoop(i, op) ==
    /\ ctor = "ok"
    /\ calls < MaxCalls
    /\ inv[i].pc = "idle"
    /\ \A j \in Invs : j < i => inv[j].pc # "idle"
    /\ ~ThreadBlocked
    /\ calls' = calls + 1
    /\ inv' = [inv EXCEPT ![i] = EnterBody([Idle EXCEPT !.op = op, !.loop = TRUE], region)]
    /\ UNCHANGED <<adapter, ctor, region, initRegion, client, call, mcp, rate, sql>>

\* The backend call returns or raises; the method schedules its event and
\* ends.
BackendDone(i, r) ==
    /\ inv[i].pc = "backend"
    /\ inv' = [inv EXCEPT ![i] = BackendResult(@, r)]
    /\ UNCHANGED <<adapter, ctor, region, initRegion, calls, client, call, mcp, rate, sql>>

\* The event loop runs a task: log_action posts the event on the adapter's
\* client.
SubmitTask(i, k, result) ==
    /\ k \in DOMAIN inv[i].subs
    /\ inv[i].subs[k].mode = "task"
    /\ inv[i].subs[k].st = "pending"
    /\ ~ThreadBlocked
    /\ inv' = [inv EXCEPT ![i] =
                   TaskDone(@, k, IF client.st = "closed" THEN PostRaised ELSE result)]
    /\ client' = DoLogAction(client, inv[i].subs[k].ev, NoKwargs, result)
    /\ UNCHANGED <<adapter, ctor, region, initRegion, calls, call, mcp, rate, sql>>

\* await adapter.close(): await self.veridion.close().
AdapterClose ==
    /\ ctor = "ok"
    /\ client.st = "open"
    /\ ~ThreadBlocked
    /\ client' = DoClose(client)
    /\ UNCHANGED <<adapter, ctor, region, initRegion, inv, calls, call, mcp, rate, sql>>

\* A settled invocation is forgotten.
Forget(i) ==
    /\ Settled(inv[i])
    /\ calls < MaxCalls
    /\ inv' = [inv EXCEPT ![i] = Idle]
    /\ UNCHANGED <<adapter, ctor, region, initRegion, calls, client, call, mcp, rate, sql>>

InitClose ==
    /\ adapter \in {"bedrock", "vertex", "huggingface"}
    /\ ctor = "none"
    /\ region = NoRegion
    /\ initRegion = NoRegion
    /\ inv = [i \in Invs |-> Idle]
    /\ calls = 0
    /\ client = NoClient
    /\ call = NoCall
    /\ mcp = NoSeal
    /\ rate = NoRate
    /\ sql = NoSql

NextClose ==
    \/ \E r \in RegionsOf(adapter) : OpenAdapter(r)
    \/ \E i \in Invs, op \in OpsOf(adapter) \cap DetachedSingleOps : CallInLoop(i, op)
    \/ \E i \in Invs, r \in {"ok"} \cup BackendErrorsOf(adapter) : BackendDone(i, r)
    \/ \E i \in Invs, k \in 1..2, result \in TransportResults : SubmitTask(i, k, result)
    \/ AdapterClose
    \/ \E i \in Invs : Forget(i)

SpecClose == InitClose /\ [][NextClose]_vars

\* C34: no POST is made on a client that has been closed, and when close()
\* closes the client every invocation that has ended has had its
\* submissions performed.
C34_Step ==
    /\ client'.posts > client.posts => client.st = "open"
    /\ (client.st = "open" /\ client'.st = "closed")
           => \A i \in Invs :
                  inv[i].pc = "done"
                      => \A k \in DOMAIN inv[i].subs : inv[i].subs[k].st = "done"

C34_NoPostAfterClose == [][C34_Step]_vars

\* C35: the body of every POST names the client's configured agent: its
\* agent_id field is self.agent_id whatever extra keyword arguments the call
\* was given, and its action, payload and target_region fields are the
\* values passed for those parameters.
C35_BodyNamesOwnAgent ==
    client.calls > 0 =>
        /\ client.last.body.agent_id = client.agent_id
        /\ client.last.body.action = client.args.action
        /\ client.last.body.payload = client.args.payload
        /\ client.last.body.target_region = client.args.target_region

----------------------------------------------------------------------------
\* The MCP tool followed on its own.

SealAgents == {"agent-a", "agent-b"}
SealActions == {"transfer", "export"}
SealData == {Text(0), Text(3), Text(5)}

\* secure_compliance_seal(agent_id, action_type, sensitive_data) is called:
\* "async with httpx.AsyncClient() as client", then the POST is sent.
SealCall(agent_id, action_type, sensitive_data) ==
    /\ mcp.pc \in {"idle", "returned"}
    /\ mcp.n < MaxSeals
    /\ mcp' = [NoSeal EXCEPT !.pc = "posting",
                             !.http = "open",
                             !.sent = SealBody(agent_id, action_type, sensitive_data),
                             !.n = mcp.n + 1]
    /\ UNCHANGED <<adapter, ctor, region, initRegion, inv, calls, client, call, rate, sql>>

\* The POST raises or is answered; a return statement is reached and the
\* "async with" block is left, which closes the client.
SealReturn(result) ==
    /\ mcp.pc = "posting"
    /\ mcp' = [mcp EXCEPT !.pc = "returned",
                          !.http = "closed",
                          !.result = result,
                          !.message = SealMessage(result)]
    /\ UNCHANGED <<adapter, ctor, region, initRegion, inv, calls, client, call, rate, sql>>

InitMcp ==
    /\ adapter = "azure"
    /\ ctor = "none"
    /\ region = NoRegion
    /\ initRegion = NoRegion
    /\ inv = [i \in Invs |-> Idle]
    /\ calls = 0
    /\ client = NoClient
    /\ call = NoCall
    /\ mcp = NoSeal
    /\ rate = NoRate
    /\ sql = NoSql

NextMcp ==
    \/ \E a \in SealAgents, t \in SealActions, d \in SealData : SealCall(a, t, d)
    \/ \E result \in SealResults : SealReturn(result)

SpecMcp == InitMcp /\ [][NextMcp]_vars

\* C36: secure_compliance_seal ends by returning, with its HTTP client
\* closed, and the message it returns is the success message exactly when
\* the ledger answered 200, the blocked message exactly when it answered
\* 403, the system error for any other status, and the connection error
\* exactly when the request was not completed.
C36_FourMessages ==
    mcp.pc # "posting" /\ mcp.n > 0 =>
        /\ mcp.pc = "returned"
        /\ mcp.http = "closed"
        /\ mcp.message = "ok" <=> (~mcp.result.raised /\ mcp.result.status = 200)
        /\ mcp.message = "blocked" <=> (~mcp.result.raised /\ mcp.result.status = 403)
        /\ (~mcp.result.raised /\ mcp.result.status \notin {200, 403})
               => mcp.message = "system_error"
        /\ mcp.message = "connection_error" <=> mcp.result.raised

----------------------------------------------------------------------------
\* test_rate_limit_bypass followed on its own.  "success_count += 1" on a
\* nonlocal variable is a read of the cell followed by a write; the
\* interpreter may switch threads between the two.

\* t = threading.Thread(target=make_request, ...); t.start()
StartThread ==
    /\ rate.main = "starting"
    /\ rate' = [rate EXCEPT !.started = @ + 1,
                            !.main = IF rate.started + 1 = NumThreads
                                     THEN "joining" ELSE @]
    /\ UNCHANGED <<adapter, ctor, region, initRegion, inv, calls, client, call, mcp, sql>>

\* requests.post returns or raises; the branch chooses the counter.
MakeRequest(t, o) ==
    /\ t <= rate.started
    /\ rate.th[t].pc = "request"
    /\ rate' = [rate EXCEPT !.th[t].pc = "load", !.th[t].counter = CounterOf(o)]
    /\ UNCHANGED <<adapter, ctor, region, initRegion, inv, calls, client, call, mcp, sql>>

\* The read of "counter += 1".
LoadCounter(t) ==
    /\ rate.th[t].pc = "load"
    /\ rate' = [rate EXCEPT !.th[t].pc = "store",
                            !.th[t].tmp = rate.count[rate.th[t].counter]]
    /\ UNCHANGED <<adapter, ctor, region, initRegion, inv, calls, client, call, mcp, sql>>

\* The write of "counter += 1"; then the next turn of the for loop.
StoreCounter(t) ==
    /\ rate.th[t].pc = "store"
    /\ rate' = [rate EXCEPT
           !.count[rate.th[t].counter] = rate.th[t].tmp + 1,
           !.th[t].i = @ + 1,
           !.th[t].pc = IF rate.th[t].i + 1 = RequestCount THEN "done" ELSE "request"]
    /\ UNCHANGED <<adapter, ctor, region, initRegion, inv, calls, client, call, mcp, sql>>

\* for t in threads: t.join(), then the sum is printed.
JoinAll ==
    /\ rate.main = "joining"
    /\ \A t \in Threads : rate.th[t].pc = "done"
    /\ rate' = [rate EXCEPT
           !.main = "joined",
           !.total = rate.count["success_count"] + rate.count["rate_limited_count"]
                         + rate.count["error_count"]]
    /\ UNCHANGED <<adapter, ctor, region, initRegion, inv, calls, client, call, mcp, sql>>

InitRate ==
    /\ adapter = "azure"
    /\ ctor = "none"
    /\ region = NoRegion
    /\ initRegion = NoRegion
    /\ inv = [i \in Invs |-> Idle]
    /\ calls = 0
    /\ client = NoClient
    /\ call = NoCall
    /\ mcp = NoSeal
    /\ rate = NoRate
    /\ sql = NoSql

NextRate ==
    \/ StartThread
    \/ \E t \in Threads, o \in RateOutcomes : MakeRequest(t, o)
    \/ \E t \in Threads : LoadCounter(t)
    \/ \E t \in Threads : StoreCounter(t)
    \/ JoinAll

SpecRate == InitRate /\ [][NextRate]_vars

\* C37: once every worker thread has been joined, the three counters add up
\* to the number of requests attempted, in every interleaving of the
\* threads.
C37_CountersAddUp ==
    rate.main = "joined" => rate.total = NumThreads * RequestCount

----------------------------------------------------------------------------
\* test_sql_injection followed on its own.

\* The entries the request of payload appends to vulnerable_endpoints.
Appended(endpoint, payload, o) ==
    (IF SqlErrorBranch(payload, o) THEN <<[endpoint |-> endpoint, payload |-> payload]>>
     ELSE <<>>)
    \o (IF TimeBranch(payload, o) THEN <<[endpoint |-> endpoint, payload |-> payload]>>
        ELSE <<>>)
    \o (IF TimeoutBranch(payload, o) THEN <<[endpoint |-> endpoint, payload |-> payload]>>
        ELSE <<>>)

\* One turn of the inner for loop: the request for the current endpoint and
\* payload, the checks of its outcome, then the next payload (endpoint).
TestPayload(o) ==
    /\ sql.e <= Len(Endpoints)
    /\ LET endpoint == Endpoints[sql.e]
           payload == Payloads[sql.p]
       IN  sql' = [sql EXCEPT
               !.vulnerable_endpoints = @ \o Appended(endpoint, payload, o),
               !.last = [endpoint |-> endpoint, payload |-> payload, outcome |-> o,
                         by_sql_error |-> IF SqlErrorBranch(payload, o) THEN 1 ELSE 0,
                         by_time |-> IF TimeBranch(payload, o) THEN 1 ELSE 0,
                         by_timeout |-> IF TimeoutBranch(payload, o) THEN 1 ELSE 0],
               !.p = IF sql.p = Len(Payloads) THEN 1 ELSE @ + 1,
               !.e = IF sql.p = Len(Payloads) THEN @ + 1 ELSE @]
    /\ UNCHANGED <<adapter, ctor, region, initRegion, inv, calls, client, call, mcp, rate>>

InitSql ==
    /\ adapter = "azure"
    /\ ctor = "none"
    /\ region = NoRegion
    /\ initRegion = NoRegion
    /\ inv = [i \in Invs |-> Idle]
    /\ calls = 0
    /\ client = NoClient
    /\ call = NoCall
    /\ mcp = NoSeal
    /\ rate = NoRate
    /\ sql = NoSql

NextSql == \E o \in SqlOutcomes : TestPayload(o)

SpecSql == InitSql /\ [][NextSql]_vars

\* C38: a potential time-based injection is recorded for a request only
\* when its payload is a time-delay payload (it contains "sleep" or
\* "waitfor", in any case) and the response took more than 4 seconds or the
\* request timed out; for a time-delay payload answered within 4 seconds
\* no such entry is added.
IsTimeDelay(payload) ==
    \/ Contains(StrLower(payload), <<"s", "l", "e", "e", "p">>)
    \/ Contains(StrLower(payload), <<"w", "a", "i", "t", "f", "o", "r">>)

C38_TimeBasedOnlyWhenSlow ==
    LET l == sql.last
        slow == \/ (l.outcome.kind = "response" /\ l.outcome.elapsed > 4)
                \/ l.outcome.kind = "timeout"
    IN  l.endpoint # "none" =>
            /\ l.by_time + l.by_timeout > 0 => (IsTimeDelay(l.payload) /\ slow)
            /\ (IsTimeDelay(l.payload) /\ ~slow) => l.by_time + l.by_timeout = 0

====
